---- MODULE Spec2Model ----
(***************************************************************************)
(* Model of send_spy_nearby_players_streamlit.py: the "Fetch & Prepare"    *)
(* handler (fetch_and_prepare_data) that ranks the village census and      *)
(* writes the CSV store, and the "Open Next" handler (open_next_unopened)  *)
(* that opens a batch of unopened rows and rewrites the store.             *)
(*                                                                         *)
(* Text is modelled as sequences of one-character strings, so that         *)
(* unquote_plus and the CSV reader's missing-value rule are computed and   *)
(* not assumed.  The distance column holds sqrt(d2) of an integer d2; sqrt *)
(* is strictly increasing and exact enough on these integers to keep both  *)
(* order and ties, so the column is represented by d2 itself.              *)
(***************************************************************************)
EXTENDS Integers, Sequences, FiniteSets, TLC

VARIABLES
    feed,       \* the census served for the world: rows name,x,y,player
    store,      \* the file at CSV_PATH: whether it exists, and its rows as text
    pc,         \* "idle", or "loop" while open_next_unopened iterates
    df_full,    \* open_next_unopened: the frame read from the store
    batch,      \* open_next_unopened: df_unopened.index[:NUM_TO_OPEN]
    k,          \* open_next_unopened: position of the loop in batch
    count,      \* open_next_unopened: count
    errs,       \* open_next_unopened: rows reported by st.error in the loop
    outs,       \* open_next_unopened: how each open_new_tab of the loop ended
    out,        \* the message the last handler ended with
    home_x,     \* x_own of the call that wrote the store
    discarded,  \* whether the last written fetch replaced a store with opened rows
    launched    \* per store row: tabs the browser launched since the fetch

vars == <<feed, store, pc, df_full, batch, k, count, errs, outs, out, home_x,
          discarded, launched>>

-----------------------------------------------------------------------------
(* Bounds and configuration *)

MaxFeed == 3

\* config.txt sets NUM_TO_OPEN (20 when it does not); the model configures 2.
NUM_TO_OPEN == 2

\* The form's values for the world and for y_own.
WORLD == 239

Y_OWN == 500

HomeXs == {500, 501}

Statuses == {200, 404}

NoStore == [exists |-> FALSE, rows |-> <<>>]

File(rows) == [exists |-> TRUE, rows |-> rows]

NaN == <<"NaN">>

-----------------------------------------------------------------------------
(* Text *)

NameAB == <<"A", "+", "B">>

NameSlash == <<"N", "%", "2", "F", "A">>

NameNA == <<"N", "A">>

\* The strings pandas.read_csv reads as a missing value (its default
\* na_values), those of at most four characters over the model's alphabet.
NaValues ==
    { <<>>, <<"N", "A">>, <<"N", "/", "A">>, <<"n", "/", "a">>,
      <<"N", "a", "N">>, <<"n", "a", "n">>, <<"N", "U", "L", "L">>,
      <<"n", "u", "l", "l">>, <<"#", "N", "A">>, <<"<", "N", "A", ">">> }

\* The %XX escapes that occur in the model's names.
HexPairs == { <<"2", "F">>, <<"2", "f">>, <<"2", "B">>, <<"2", "0">>, <<"4", "1">> }

HexChar(p) ==
    CASE p = <<"2", "F">> -> "/"
      [] p = <<"2", "f">> -> "/"
      [] p = <<"2", "B">> -> "+"
      [] p = <<"2", "0">> -> " "
      [] p = <<"4", "1">> -> "A"

RECURSIVE unquote(_)
unquote(s) ==
    IF s = <<>> THEN <<>>
    ELSE IF Head(s) = "%" /\ Len(s) >= 3 /\ <<s[2], s[3]>> \in HexPairs
         THEN <<HexChar(<<s[2], s[3]>>)>> \o unquote(SubSeq(s, 4, Len(s)))
         ELSE <<Head(s)>> \o unquote(Tail(s))

\* urllib.parse.unquote_plus: '+' becomes a space, then the escapes are decoded.
unquote_plus(s) == unquote([j \in 1 .. Len(s) |-> IF s[j] = "+" THEN " " ELSE s[j]])

\* pandas.read_csv on one text cell of the name column.
read_name(t) == IF t \in NaValues THEN NaN ELSE t

\* DataFrame.to_csv on one cell of the name column (na_rep = '').
write_name(v) == IF v = NaN THEN <<>> ELSE v

read_bool(t) == t = "True"

write_bool(b) == IF b THEN "True" ELSE "False"

-----------------------------------------------------------------------------
(* The census *)

Village(n, x, y, p) == [name |-> n, x |-> x, y |-> y, player |-> p]

\* The villages a census is drawn from.  From the home (500,500) the squared
\* distances are 1, 1, 1, 4, 4, 0 and from (501,500) they are 4, 4, 0, 5, 1, 1:
\* player 1 has two villages that tie from one home and differ from the
\* other, players 2 and 3 tie with each other from one home only, player 0
\* is the barbarian, one name decodes to a missing-value string and one
\* already is one.
Villages ==
    { Village(NameAB,    499, 500, 0),
      Village(NameAB,    499, 500, 1),
      Village(NameAB,    501, 500, 1),
      Village(NameSlash, 500, 502, 2),
      Village(NameAB,    502, 500, 3),
      Village(NameNA,    500, 500, 3) }

Feeds == UNION { [1 .. n -> Villages] : n \in 0 .. MaxFeed }

-----------------------------------------------------------------------------
(* fetch_and_prepare_data *)

\* Step 2: pd.read_csv of the census; the frame keeps the labels 1..n.
read_feed(f) == [j \in 1 .. Len(f) |-> [f[j] EXCEPT !.name = read_name(f[j].name)]]

\* owned without the filter: the barbarian rows stay.
owned_all(df) == 1 .. Len(df)

\* Step 2.5: df[df['player'] != 0], as the labels that remain.
owned(df) == { j \in 1 .. Len(df) : df[j].player # 0 }

\* Step 3
distance2(r, x_own, y_own) ==
    (r.x - x_own) * (r.x - x_own) + (r.y - y_own) * (r.y - y_own)

\* idxmin that keeps the last occurrence of the minimum.
idxmin_last(df, labels, x_own, y_own) ==
    { j \in labels :
        \A h \in labels :
            df[h].player = df[j].player =>
                \/ distance2(df[j], x_own, y_own) < distance2(df[h], x_own, y_own)
                \/ /\ distance2(df[j], x_own, y_own) = distance2(df[h], x_own, y_own)
                   /\ j >= h }

\* Step 4: groupby('player')['distance'].idxmin(): per player the label of
\* the first occurrence of the group's minimum.
idxmin(df, labels, x_own, y_own) ==
    { j \in labels :
        \A h \in labels :
            df[h].player = df[j].player =>
                \/ distance2(df[j], x_own, y_own) < distance2(df[h], x_own, y_own)
                \/ /\ distance2(df[j], x_own, y_own) = distance2(df[h], x_own, y_own)
                   /\ j <= h }

\* Step 6
url_to_open(world_number, r) == <<"place", world_number, r.x, r.y>>

\* closest_row that does not reset the flag.
closest_row_opened(df, j, x_own, y_own, world_number) ==
    [ name     |-> unquote_plus(df[j].name),
      x        |-> df[j].x,
      y        |-> df[j].y,
      player   |-> df[j].player,
      dist2    |-> distance2(df[j], x_own, y_own),
      url      |-> url_to_open(world_number, df[j]),
      opened   |-> TRUE ]

\* Steps 2.5-7 for one label: the row of df_closest.
closest_row(df, j, x_own, y_own, world_number) ==
    [ name     |-> unquote_plus(df[j].name),
      x        |-> df[j].x,
      y        |-> df[j].y,
      player   |-> df[j].player,
      dist2    |-> distance2(df[j], x_own, y_own),
      url      |-> url_to_open(world_number, df[j]),
      opened   |-> FALSE ]

\* sort_values left out: the rows stay in any order.
sort_none(df, labels, x_own, y_own) ==
    { s \in [1 .. Cardinality(labels) -> labels] :
        \A a, b \in 1 .. Cardinality(labels) : a # b => s[a] # s[b] }

\* Step 5: sort_values('distance') with the default, unstable sort: any
\* arrangement of the labels in non-decreasing distance can result.
sort_values(df, labels, x_own, y_own) ==
    { s \in [1 .. Cardinality(labels) -> labels] :
        /\ \A a, b \in 1 .. Cardinality(labels) : a # b => s[a] # s[b]
        /\ \A a \in 1 .. Cardinality(labels) - 1 :
              distance2(df[s[a]], x_own, y_own) <= distance2(df[s[a + 1]], x_own, y_own) }

\* Step 8 and line 133: DataFrame.to_csv, row by row.
to_csv(df) ==
    [j \in 1 .. Len(df) |->
        [ name   |-> write_name(df[j].name),
          x      |-> df[j].x,
          y      |-> df[j].y,
          player |-> df[j].player,
          dist2  |-> df[j].dist2,
          url    |-> df[j].url,
          opened |-> write_bool(df[j].opened) ]]

\* Line 109: pd.read_csv of the store.
read_csv(st) ==
    [j \in 1 .. Len(st) |->
        [ name   |-> read_name(st[j].name),
          x      |-> st[j].x,
          y      |-> st[j].y,
          player |-> st[j].player,
          dist2  |-> st[j].dist2,
          url    |-> st[j].url,
          opened |-> read_bool(st[j].opened) ]]

Locals == <<df_full, batch, k, count, errs, outs>>

Kept == <<feed, store, pc, Locals, home_x, discarded, launched>>

\* FetchBadStatus that has opened the file for writing before the download.
FetchBadStatus_truncates ==
    /\ pc = "idle"
    /\ \E x_own \in HomeXs, status \in Statuses :
          /\ status # 200
          /\ out' = "fetch_failed"
    /\ store' = File(<<>>)
    /\ launched' = <<>>
    /\ UNCHANGED <<feed, pc, Locals, home_x, discarded>>

\* Line 65: the status is not 200; the handler reports and writes nothing.
FetchBadStatus ==
    /\ pc = "idle"
    /\ \E x_own \in HomeXs, status \in Statuses :
          /\ status # 200
          /\ out' = "fetch_failed"
    /\ UNCHANGED Kept

\* Line 70: the body is not a gzip stream and gzip raises.
FetchBadBody ==
    /\ pc = "idle"
    /\ \E x_own \in HomeXs, gzip_ok \in BOOLEAN :
          /\ ~gzip_ok
          /\ out' = "fetch_failed"
    /\ UNCHANGED Kept

\* Line 75: unquote_plus raises on a name that read_csv read as missing.
FetchBadName ==
    /\ pc = "idle"
    /\ \E x_own \in HomeXs :
          LET df == read_feed(feed)
          IN  /\ \E j \in owned(df) : df[j].name = NaN
              /\ out' = "fetch_failed"
    /\ UNCHANGED Kept

\* Lines 62-98 without an exception: the store is written.
FetchOk ==
    /\ pc = "idle"
    /\ \E x_own \in HomeXs :
          LET df     == read_feed(feed)
              labels == idxmin(df, owned(df), x_own, Y_OWN)
          IN  /\ \A j \in owned(df) : df[j].name # NaN
              /\ \E s \in sort_values(df, labels, x_own, Y_OWN) :
                    LET df_closest ==
                            [a \in 1 .. Len(s) |-> closest_row(df, s[a], x_own, Y_OWN, WORLD)]
                    IN  /\ store' = File(to_csv(df_closest))
                        /\ launched' = [a \in 1 .. Len(s) |-> 0]
              /\ home_x' = x_own
    /\ discarded' = \E j \in 1 .. Len(store.rows) : store.rows[j].opened = "True"
    /\ out' = "saved"
    /\ UNCHANGED <<feed, pc, Locals>>

fetch_and_prepare_data == FetchBadStatus \/ FetchBadBody \/ FetchBadName \/ FetchOk

-----------------------------------------------------------------------------
(* open_next_unopened *)

\* open_new_tab returns True when the browser was launched, returns False
\* when it was not, or raises.
OpenOutcomes == {"launched", "not_launched", "raised"}

RECURSIVE index_of(_, _)
\* The labels of S among 1..n, increasing.
index_of(n, S) ==
    IF n = 0 THEN <<>>
    ELSE IF n \in S THEN Append(index_of(n - 1, S), n) ELSE index_of(n - 1, S)

\* Line 112: the labels of df_full[df_full['opened'] == False], in order.
unopened_index(df) == index_of(Len(df), { j \in 1 .. Len(df) : df[j].opened = FALSE })

\* The slice left out: the whole unopened index.
head_all(s, n) == s

\* Line 121: index[:NUM_TO_OPEN]
head_n(s, n) == SubSeq(s, 1, IF Len(s) < n THEN Len(s) ELSE n)

\* Lines 105-107
OpenNoStore ==
    /\ pc = "idle"
    /\ ~store.exists
    /\ out' = "not_found"
    /\ UNCHANGED Kept

\* OpenNothing that reports the empty selection as an error.
OpenNothing_error ==
    /\ pc = "idle"
    /\ store.exists
    /\ unopened_index(read_csv(store.rows)) = <<>>
    /\ out' = "not_found"
    /\ UNCHANGED Kept

\* Lines 114-116
OpenNothing ==
    /\ pc = "idle"
    /\ store.exists
    /\ unopened_index(read_csv(store.rows)) = <<>>
    /\ out' = "no_more"
    /\ UNCHANGED Kept

\* Line 119: webbrowser.get raises webbrowser.Error outside any try.
OpenNoBrowser ==
    /\ pc = "idle"
    /\ store.exists
    /\ unopened_index(read_csv(store.rows)) # <<>>
    /\ out' = "exception"
    /\ UNCHANGED Kept

\* Lines 109-121: the frame is loaded and the batch selected.
OpenBegin ==
    /\ pc = "idle"
    /\ store.exists
    /\ unopened_index(read_csv(store.rows)) # <<>>
    /\ df_full' = read_csv(store.rows)
    /\ batch' = head_n(unopened_index(read_csv(store.rows)), NUM_TO_OPEN)
    /\ k' = 1
    /\ count' = 0
    /\ errs' = <<>>
    /\ outs' = <<>>
    /\ pc' = "loop"
    /\ UNCHANGED <<feed, store, out, home_x, discarded, launched>>

\* Lines 121-130: one iteration.  Only an exception reaches the except
\* clause; the value open_new_tab returns is not looked at.
OpenTab ==
    /\ pc = "loop"
    /\ k <= Len(batch)
    /\ \E o \in OpenOutcomes :
          /\ IF o = "raised"
             THEN /\ errs' = Append(errs, batch[k])
                  /\ UNCHANGED <<df_full, count>>
             ELSE /\ df_full' = [df_full EXCEPT ![batch[k]].opened = TRUE]
                  /\ count' = count + 1
                  /\ UNCHANGED errs
          /\ launched' = IF o = "launched"
                         THEN [launched EXCEPT ![batch[k]] = @ + 1]
                         ELSE launched
          /\ outs' = Append(outs, o)
    /\ k' = k + 1
    /\ UNCHANGED <<feed, store, pc, batch, out, home_x, discarded>>

\* Lines 132-134
OpenSave ==
    /\ pc = "loop"
    /\ k > Len(batch)
    /\ store' = File(to_csv(df_full))
    /\ out' = "opened"
    /\ pc' = "idle"
    /\ df_full' = <<>>
    /\ batch' = <<>>
    /\ k' = 0
    /\ count' = 0
    /\ errs' = <<>>
    /\ outs' = <<>>
    /\ UNCHANGED <<feed, home_x, discarded, launched>>

open_next_unopened == OpenNoStore \/ OpenNothing \/ OpenNoBrowser \/ OpenBegin

-----------------------------------------------------------------------------

Init ==
    /\ feed \in Feeds
    /\ store = NoStore
    /\ pc = "idle"
    /\ df_full = <<>>
    /\ batch = <<>>
    /\ k = 0
    /\ count = 0
    /\ errs = <<>>
    /\ outs = <<>>
    /\ out = "none"
    /\ home_x = 500
    /\ discarded = FALSE
    /\ launched = <<>>

Next == fetch_and_prepare_data \/ open_next_unopened \/ OpenTab \/ OpenSave

Spec == Init /\ [][Next]_vars

-----------------------------------------------------------------------------
(* Properties *)

Rows == store.rows

RowIds == 1 .. Len(store.rows)

FeedIds == 1 .. Len(feed)

Min(a, b) == IF a < b THEN a ELSE b

\* Distance of a census row from the home the store was ranked from.
HomeDistance2(v) == (v.x - home_x) * (v.x - home_x) + (v.y - Y_OWN) * (v.y - Y_OWN)

\* Row a of the store is the census row j.
IsVillage(a, j) ==
    /\ Rows[a].player = feed[j].player
    /\ Rows[a].x = feed[j].x
    /\ Rows[a].y = feed[j].y
    /\ Rows[a].dist2 = HomeDistance2(feed[j])

AllOpened == \A j \in RowIds : Rows[j].opened = "True"

\* C1: the store holds exactly one row for each player of the census other
\* than player 0, no two rows share a player, and no row has player 0.
C1_OneRowPerPlayer ==
    store.exists =>
        /\ { Rows[a].player : a \in RowIds } = { feed[j].player : j \in FeedIds } \ {0}
        /\ \A a, b \in RowIds : a # b => Rows[a].player # Rows[b].player
        /\ \A a \in RowIds : Rows[a].player # 0

\* A store written from a census with a barbarian village and two villages of
\* one player.
C1_Witness ==
    /\ store.exists
    /\ out = "saved"
    /\ Len(Rows) >= 1
    /\ \E j \in FeedIds : feed[j].player = 0
    /\ \E j, h \in FeedIds : j # h /\ feed[j].player = feed[h].player /\ feed[j].player # 0

\* C2: every row of the store is a village of its player that is no farther
\* from the home than any village of that player in the census, and among
\* the player's villages at that minimum it is the first of the census.
C2_ClosestFirst ==
    store.exists =>
        \A a \in RowIds :
            \E j \in FeedIds :
                /\ IsVillage(a, j)
                /\ \A h \in FeedIds :
                      feed[h].player = feed[j].player =>
                          /\ HomeDistance2(feed[j]) <= HomeDistance2(feed[h])
                          /\ HomeDistance2(feed[j]) = HomeDistance2(feed[h]) => j <= h

\* Two villages of one player at the same distance and different places; the
\* store holds the earlier one.
C2_Witness ==
    /\ store.exists
    /\ out = "saved"
    /\ \E j, h \in FeedIds, a \in RowIds :
          /\ j < h
          /\ feed[j].player = feed[h].player
          /\ feed[j].x # feed[h].x
          /\ HomeDistance2(feed[j]) = HomeDistance2(feed[h])
          /\ IsVillage(a, j)

\* C3: adjacent rows of the store are in non-decreasing distance.
C3_SortedByDistance ==
    store.exists =>
        \A a \in 1 .. Len(Rows) - 1 : Rows[a].dist2 <= Rows[a + 1].dist2

\* The nearer row belongs to the higher player id, so the sort moved it up.
C3_Witness ==
    /\ store.exists
    /\ out = "saved"
    /\ Len(Rows) >= 2
    /\ Rows[1].dist2 < Rows[2].dist2
    /\ Rows[1].player > Rows[2].player

\* Row j is among the first NUM_TO_OPEN unopened rows of the store.
InFirstUnopened(j) ==
    /\ Rows[j].opened = "False"
    /\ Cardinality({ h \in 1 .. j - 1 : Rows[h].opened = "False" }) < NUM_TO_OPEN

\* C4: when every open_new_tab of a call launched the browser, the call
\* opens min(unopened rows, NUM_TO_OPEN) rows, the first such unopened rows
\* of the store, and the store it writes has exactly those rows turned to
\* opened and all others as before.
C4_BatchOpensFirstN ==
    [][(OpenSave /\ \A a \in 1 .. Len(outs) : outs[a] = "launched") =>
          /\ count = Min(Cardinality({ j \in RowIds : Rows[j].opened = "False" }), NUM_TO_OPEN)
          /\ Len(outs) = count
          /\ Len(store'.rows) = Len(Rows)
          /\ \A j \in RowIds :
                /\ store'.rows[j].opened = "True" <=>
                      (Rows[j].opened = "True" \/ InFirstUnopened(j))
                /\ InFirstUnopened(j) => launched[j] = 1
                /\ (Rows[j].opened = "False" /\ ~InFirstUnopened(j)) => launched[j] = 0
      ]_vars

\* Three unopened rows, one call: two are opened and one is left.
C4_Witness ==
    /\ pc = "idle"
    /\ out = "opened"
    /\ Len(Rows) = 3
    /\ Rows[1].opened = "True"
    /\ Rows[2].opened = "True"
    /\ Rows[3].opened = "False"
    /\ launched = <<1, 1, 0>>

\* C5: a row whose open action failed in a batch is written unopened and
\* reported, the rows whose open action succeeded are written opened, and
\* every row of the batch has been processed.
C5_FailedRowStaysUnopened ==
    [][OpenSave =>
          /\ Len(outs) = Len(batch)
          /\ \A a \in 1 .. Len(batch) :
                IF outs[a] = "launched"
                THEN store'.rows[batch[a]].opened = "True"
                ELSE /\ store'.rows[batch[a]].opened = "False"
                     /\ \E e \in 1 .. Len(errs) : errs[e] = batch[a]
      ]_vars

\* C5, for the failures that raise: the row is written unopened and reported,
\* the other rows of the batch are processed and written opened.
C5_RaisedRowStaysUnopened ==
    [][OpenSave =>
          /\ Len(outs) = Len(batch)
          /\ \A a \in 1 .. Len(batch) :
                IF outs[a] = "raised"
                THEN /\ store'.rows[batch[a]].opened = "False"
                     /\ \E e \in 1 .. Len(errs) : errs[e] = batch[a]
                ELSE store'.rows[batch[a]].opened = "True"
      ]_vars

C7_NothingToOpenIsIdempotent ==
    /\ [] ((pc = "idle" /\ store.exists /\ AllOpened) =>
              /\ ENABLED OpenNothing
              /\ ~ENABLED OpenNoStore
              /\ ~ENABLED OpenNoBrowser
              /\ ~ENABLED OpenBegin)
    /\ [][OpenNothing =>
              /\ store' = store
              /\ launched' = launched
              /\ pc' = "idle"
              /\ out' = "no_more"
         ]_vars

\* A call that found every row of a non-empty store opened.
C7_Witness ==
    /\ pc = "idle"
    /\ out = "no_more"
    /\ store.exists
    /\ Len(Rows) >= 1
    /\ AllOpened

\* C8: open_next_unopened writes the rows it read, in their order, with
\* every field but opened as it was; opened changes only from false to true
\* and only on rows of the batch.
C8_OnlyOpenedChanges ==
    [][(open_next_unopened \/ OpenTab \/ OpenSave) =>
          /\ store'.exists = store.exists
          /\ Len(store'.rows) = Len(Rows)
          /\ \A j \in RowIds :
                /\ [store'.rows[j] EXCEPT !.opened = "-"] = [Rows[j] EXCEPT !.opened = "-"]
                /\ store'.rows[j].opened # Rows[j].opened =>
                      /\ Rows[j].opened = "False"
                      /\ store'.rows[j].opened = "True"
                      /\ \E a \in 1 .. Len(batch) : batch[a] = j
      ]_vars

\* C8 without the name column: the rows, their order and the other fields
\* stay, and opened changes only from false to true on rows of the batch.
C8_OnlyOpenedChangesButName ==
    [][(open_next_unopened \/ OpenTab \/ OpenSave) =>
          /\ store'.exists = store.exists
          /\ Len(store'.rows) = Len(Rows)
          /\ \A j \in RowIds :
                /\ [store'.rows[j] EXCEPT !.opened = "-", !.name = <<>>]
                      = [Rows[j] EXCEPT !.opened = "-", !.name = <<>>]
                /\ store'.rows[j].opened # Rows[j].opened =>
                      /\ Rows[j].opened = "False"
                      /\ store'.rows[j].opened = "True"
                      /\ \E a \in 1 .. Len(batch) : batch[a] = j
      ]_vars

\* C9: a fetch that succeeds writes a store of rows ranked from the census
\* alone, one per owned player, every one of them unopened, whatever the
\* store held before.
C9_FetchOverwrites ==
    [][(out' = "saved" /\ FetchOk) =>
          /\ store'.exists
          /\ { store'.rows[a].player : a \in 1 .. Len(store'.rows) }
                = { feed[j].player : j \in FeedIds } \ {0}
          /\ \A a \in 1 .. Len(store'.rows) :
                /\ store'.rows[a].opened = "False"
                /\ \E j \in FeedIds :
                      /\ store'.rows[a].player = feed[j].player
                      /\ store'.rows[a].x = feed[j].x
                      /\ store'.rows[a].y = feed[j].y
                      /\ store'.rows[a].name = unquote_plus(feed[j].name)
      ]_vars

\* A fetch has replaced a store that had opened rows.
C9_Witness ==
    /\ pc = "idle"
    /\ out = "saved"
    /\ discarded
    /\ Len(Rows) >= 1
    /\ \A j \in RowIds : Rows[j].opened = "False"

\* C10: since the fetch the browser was launched at most once for a row,
\* and between calls a row is opened in the store exactly when the browser
\* was launched for it.
C10_OpenedIffLaunched ==
    /\ \A j \in 1 .. Len(launched) : launched[j] <= 1
    /\ (pc = "idle" /\ store.exists) =>
          \A j \in RowIds : Rows[j].opened = "True" <=> launched[j] = 1

====
